---------------------------- MODULE Spec2Model ----------------------------
(***************************************************************************)
(* Rate-limit gate of app/api/dependencies.py: identity resolution         *)
(* (get_current_user, get_optional_user, get_api_key_user,                 *)
(* get_authenticated_user), quota resolution and the fixed-window count    *)
(* of rate_limiter_dependency, against a database of users, tiers and      *)
(* rate-limit rules and a counter store with atomic increment and expiry.  *)
(***************************************************************************)
EXTENDS Integers, Sequences, FiniteSets, TLC

None == "None"

(***************************************************************************)
(* Bounds of the model.                                                    *)
(***************************************************************************)
MaxRequests == 3
\* the requests that arrive in the model of fair scheduling
LiveRequests == 2

\* the request handlers that run concurrently
Procs == {1, 2}

(***************************************************************************)
(* Process-wide default quota (settings.DEFAULT_RATE_LIMIT_LIMIT/_PERIOD), *)
(* loaded once at startup: the values of the concurrent model, and those   *)
(* of the end-to-end scenario (limit 10 per 60 time units).                *)
(***************************************************************************)
DEFAULT_LIMIT == 2
DEFAULT_PERIOD == 1
ScenarioLimit == 10
ScenarioPeriod == 60
ScenarioCalls == 12

(***************************************************************************)
(* The database: users, tiers and rate-limit rules.  Records are read by   *)
(* exact-match point lookups and never written by the gate.                *)
(***************************************************************************)
Users ==
    { [id |-> "u1", username |-> "alice", email |-> "alice@x.io", tier_id |-> "t1",
       is_superuser |-> FALSE, is_deleted |-> FALSE, api_key |-> "key_alice"],
      [id |-> "u2", username |-> "bob", email |-> "bob@x.io", tier_id |-> None,
       is_superuser |-> TRUE, is_deleted |-> FALSE, api_key |-> "key_bob"],
      [id |-> "u3", username |-> "carol", email |-> "carol@x.io", tier_id |-> "t2",
       is_superuser |-> FALSE, is_deleted |-> FALSE, api_key |-> None],
      [id |-> "u4", username |-> "dave", email |-> "dave@x.io", tier_id |-> "t1",
       is_superuser |-> TRUE, is_deleted |-> TRUE, api_key |-> "key_dave"],
      [id |-> "u5", username |-> "erin", email |-> "erin@x.io", tier_id |-> "t9",
       is_superuser |-> FALSE, is_deleted |-> FALSE, api_key |-> None] }

Tiers == { [id |-> "t1", name |-> "free"], [id |-> "t2", name |-> "pro"] }

ItemsPath == <<"items", "{id}">>
UsersPath == <<"users">>

RateLimits ==
    { [tier_id |-> "t1", path |-> ItemsPath, limit |-> 1, period |-> 2],
      [tier_id |-> "t2", path |-> ItemsPath, limit |-> 3, period |-> 1],
      [tier_id |-> "t2", path |-> UsersPath, limit |-> 3, period |-> 2] }

(***************************************************************************)
(* Database point lookups (FastCRUD get): the record matching every        *)
(* filter, or None.  Each table holds at most one match per filter used.   *)
(***************************************************************************)
NoUser == [id |-> None, username |-> None, email |-> None, tier_id |-> None,
           is_superuser |-> FALSE, is_deleted |-> FALSE, api_key |-> None]
NoTier == [id |-> None, name |-> None]
NoRateLimit == [tier_id |-> None, path |-> <<>>, limit |-> 0, period |-> 0]

GetOne(S, none) == IF S = {} THEN none ELSE CHOOSE r \in S : TRUE

UserByEmail(e) == GetOne({u \in Users : u.email = e /\ ~u.is_deleted}, NoUser)
UserByUsername(n) == GetOne({u \in Users : u.username = n /\ ~u.is_deleted}, NoUser)
UserByApiKey(k) == GetOne({u \in Users : u.api_key = k /\ ~u.is_deleted}, NoUser)
TierById(i) == GetOne({t \in Tiers : t.id = i}, NoTier)
RateLimitByTierPath(i, p) ==
    GetOne({r \in RateLimits : r.tier_id = i /\ r.path = p}, NoRateLimit)

(***************************************************************************)
(* Path normalizer (sanitize_path): a segment that is not a registered     *)
(* static route segment is replaced by the placeholder.                    *)
(***************************************************************************)
StaticSegments == {"items", "users"}
Placeholder == "{id}"
sanitize_path(raw) ==
    [i \in 1..Len(raw) |->
        IF raw[i] \in StaticSegments THEN raw[i] ELSE Placeholder]

\* the registered routes, as templates
Routes == { <<"items", "{id}">>, <<"users">>, <<"users", "{id}">> }

\* a concrete path matches a route: the static segments agree, and a
\* parameter takes any value
Matches(raw, route) ==
    /\ Len(raw) = Len(route)
    /\ \A i \in 1..Len(route) : route[i] = Placeholder \/ route[i] = raw[i]
RoutesOf(raw) == {route \in Routes : Matches(raw, route)}

\* no parameter of the path has a value that is itself a static segment
PlainParameters(raw) ==
    \A route \in RoutesOf(raw) : \A i \in 1..Len(route) :
        route[i] = Placeholder => raw[i] \notin StaticSegments

RawPaths == { <<"items", "42">>, <<"items", "57">>, <<"users">>,
              <<"users", "42">>, <<"items", "users">> }

\* the paths requested in the concurrent model
GateRaws == {<<"items", "42">>, <<"users">>}

(***************************************************************************)
(* Token verifier (verify_token for TokenType.ACCESS): the subject a token *)
(* names when it verifies, None otherwise.                                 *)
(***************************************************************************)
Tokens == {"tok_alice", "tok_alice_mail", "tok_bob", "tok_carol", "tok_erin",
           "tok_dave", "tok_ghost", "tok_bad", ""}

TokenSubject(token) ==
    CASE token = "tok_alice" -> "alice"
      [] token = "tok_alice_mail" -> "alice@x.io"
      [] token = "tok_bob" -> "bob"
      [] token = "tok_carol" -> "carol"
      [] token = "tok_erin" -> "erin"
      [] token = "tok_dave" -> "dave"
      [] token = "tok_ghost" -> "ghost"
      [] OTHER -> None

\* "@" in username_or_email
HasAt(s) == s \in {u.email : u \in Users}

(***************************************************************************)
(* Results of a dependency: a returned value, an HTTPException with its    *)
(* status code, or any other exception (an infrastructure error).          *)
(***************************************************************************)
Return(v) == [kind |-> "return", value |-> v, status |-> 0]
Unauthorized == [kind |-> "http", value |-> NoUser, status |-> 401]
Forbidden == [kind |-> "http", value |-> NoUser, status |-> 403]
InfraError == [kind |-> "error", value |-> NoUser, status |-> 0]

(***************************************************************************)
(* get_current_user.  fault is the index of the awaited call that raises   *)
(* an infrastructure error (1: verify_token, 2: crud_users.get), 0: none.  *)
(***************************************************************************)
get_current_user(token, fault) ==
    IF fault = 1 THEN InfraError
    ELSE LET token_data == TokenSubject(token) IN
      IF token_data = None THEN Unauthorized
      ELSE IF fault = 2 THEN InfraError
      ELSE LET user == IF HasAt(token_data) THEN UserByEmail(token_data)
                       ELSE UserByUsername(token_data) IN
        IF user # NoUser THEN Return(user) ELSE Unauthorized

(***************************************************************************)
(* An Authorization header is a sequence of words and " " separators;      *)
(* <<>> is the absent (or empty) header.  Partition is str.partition(" "): *)
(* the words before the first separator and the words after it.  The       *)
(* headers of the model hold at most one word on either side.              *)
(***************************************************************************)
SepIndex(h) ==
    IF \E i \in 1..Len(h) : h[i] = " "
    THEN CHOOSE i \in 1..Len(h) : h[i] = " " /\ \A j \in 1..(i-1) : h[j] # " "
    ELSE Len(h) + 1
Word(ws) == IF ws = <<>> THEN "" ELSE ws[1]
Partition(h) ==
    [head |-> Word(SubSeq(h, 1, SepIndex(h) - 1)),
     tail |-> Word(SubSeq(h, SepIndex(h) + 1, Len(h)))]
Lower(w) ==
    CASE w = "Bearer" -> "bearer"
      [] w = "BEARER" -> "bearer"
      [] w = "Basic" -> "basic"
      [] OTHER -> w

Headers ==
    { <<>>, <<"Bearer">>, <<"Bearer", " ">>, <<"tok_alice">>,
      <<"Basic", " ", "tok_alice">>, <<"BEARER", " ", "tok_bob">> }
    \cup { <<"Bearer", " ", t>> : t \in Tokens \ {""} }

(***************************************************************************)
(* get_optional_user.  fault: 1: verify_token, 2 and 3: the two awaited    *)
(* calls of get_current_user, 0: none.                                     *)
(***************************************************************************)
\* get_optional_user without its exception handlers
get_optional_user_run_unguarded(header, fault) ==
    IF header = <<>> THEN [result |-> Return(NoUser), caught |-> None]
    ELSE LET token_type == Partition(header).head
             token_value == Partition(header).tail IN
      IF Lower(token_type) # "bearer" \/ token_value = ""
      THEN [result |-> Return(NoUser), caught |-> None]
      ELSE IF fault = 1 THEN [result |-> InfraError, caught |-> None]
      ELSE IF TokenSubject(token_value) = None
      THEN [result |-> Return(NoUser), caught |-> None]
      ELSE [result |-> get_current_user(token_value,
                                        IF fault >= 2 THEN fault - 1 ELSE 0),
            caught |-> None]

get_optional_user_run(header, fault) ==
    IF header = <<>> THEN [result |-> Return(NoUser), caught |-> None]
    ELSE LET token_type == Partition(header).head
             token_value == Partition(header).tail IN
      IF Lower(token_type) # "bearer" \/ token_value = ""
      THEN [result |-> Return(NoUser), caught |-> None]
      ELSE IF fault = 1 THEN [result |-> Return(NoUser), caught |-> "error"]
      ELSE IF TokenSubject(token_value) = None
      THEN [result |-> Return(NoUser), caught |-> None]
      ELSE LET r == get_current_user(token_value,
                                     IF fault >= 2 THEN fault - 1 ELSE 0) IN
        IF r.kind = "return" THEN [result |-> r, caught |-> None]
        ELSE [result |-> Return(NoUser), caught |-> r.kind]

get_optional_user(header, fault) == get_optional_user_run(header, fault).result

(***************************************************************************)
(* get_api_key_user.  fault: 1: crud_users.get raises, 0: none.            *)
(***************************************************************************)
ApiKeys == {None, "", "key_alice", "key_bob", "key_dave", "key_bad"}

get_api_key_user(api_key, fault) ==
    IF api_key = None \/ api_key = "" THEN Unauthorized
    ELSE IF fault = 1 THEN InfraError
    ELSE LET user == UserByApiKey(api_key) IN
      IF user # NoUser THEN Return(user) ELSE Unauthorized

(***************************************************************************)
(* get_authenticated_user: the token first, then the API key.              *)
(***************************************************************************)
\* the API key tried before the token
get_authenticated_user_key_first(token, api_key, faultT, faultK) ==
    LET r == IF api_key # None /\ api_key # ""
             THEN get_api_key_user(api_key, faultK) ELSE Unauthorized IN
    IF api_key # None /\ api_key # "" /\ r.kind # "http" THEN r
    ELSE IF token # None /\ token # "" THEN get_current_user(token, faultT)
    ELSE Unauthorized

get_authenticated_user(token, api_key, faultT, faultK) ==
    LET r == IF token # None /\ token # ""
             THEN get_current_user(token, faultT) ELSE Unauthorized IN
    IF token # None /\ token # "" /\ r.kind # "http" THEN r
    ELSE IF api_key # None /\ api_key # "" THEN get_api_key_user(api_key, faultK)
    ELSE Unauthorized

(***************************************************************************)
(* The calls an identity dependency makes on its collaborators, in order   *)
(* (a call that raises is made, and is the last one).  fault as above.     *)
(***************************************************************************)
get_current_user_calls(token, fault) ==
    <<"verify_token">> \o
    (IF fault # 1 /\ TokenSubject(token) # None
     THEN <<"crud_users.get">> ELSE <<>>)

get_optional_user_calls(header, fault) ==
    IF header = <<>> THEN <<>>
    ELSE LET token_type == Partition(header).head
             token_value == Partition(header).tail IN
      IF Lower(token_type) # "bearer" \/ token_value = "" THEN <<>>
      ELSE <<"verify_token">> \o
           (IF fault = 1 \/ TokenSubject(token_value) = None THEN <<>>
            ELSE get_current_user_calls(token_value,
                                        IF fault >= 2 THEN fault - 1 ELSE 0))

\* the key's last use written back to the user record
get_api_key_user_calls_touching(api_key, fault) ==
    IF api_key = None \/ api_key = "" THEN <<>>
    ELSE <<"crud_users.get", "crud_users.update">>

get_api_key_user_calls(api_key, fault) ==
    IF api_key = None \/ api_key = "" THEN <<>> ELSE <<"crud_users.get">>

get_authenticated_user_calls(token, api_key, faultT, faultK) ==
    LET tried == token # None /\ token # ""
        r == get_current_user(token, faultT) IN
    (IF tried THEN get_current_user_calls(token, faultT) ELSE <<>>) \o
    (IF (~tried \/ r.kind = "http") /\ api_key # None /\ api_key # ""
     THEN get_api_key_user_calls(api_key, faultK) ELSE <<>>)

\* the collaborator calls that only read: token verification and the point
\* lookup of a user
ReadOnlyCalls == {"verify_token", "crud_users.get"}

(***************************************************************************)
(* get_current_superuser, on the result of its get_current_user.           *)
(***************************************************************************)
\* the privilege check made before the credential is known to resolve
get_current_superuser_unchecked(current_user) ==
    IF ~current_user.value.is_superuser THEN Forbidden
    ELSE Return(current_user.value)

get_current_superuser(current_user) ==
    IF current_user.kind # "return" THEN current_user
    ELSE IF ~current_user.value.is_superuser THEN Forbidden
    ELSE Return(current_user.value)

(***************************************************************************)
(* Quota resolution of rate_limiter_dependency: the normalized path, the   *)
(* identity part of the counter key and the (limit, period) handed to the  *)
(* rate gate.  defaults is (DEFAULT_LIMIT, DEFAULT_PERIOD); client is      *)
(* request.client.host, None when the request has no client.  fault: 1:    *)
(* crud_tiers.get raises, 2: crud_rate_limits.get raises, 0: none.         *)
(***************************************************************************)
Clients == {"203.0.113.5", None}

Quota(kind, user_id, path, limit, period) ==
    [kind |-> kind, user_id |-> user_id, path |-> path,
     limit |-> limit, period |-> period]

\* the rule looked up under the raw request path, not the normalized one
resolve_quota_raw_path(user, client, raw, fault, defaults) ==
    LET path == sanitize_path(raw) IN
    IF user # NoUser
    THEN LET tier == TierById(user.tier_id)
             rate_limit == RateLimitByTierPath(tier.id, raw) IN
         IF fault = 1 \/ (fault = 2 /\ tier # NoTier)
         THEN Quota("error", user.id, path, 0, 0)
         ELSE IF tier # NoTier /\ rate_limit # NoRateLimit
         THEN Quota("return", user.id, path, rate_limit.limit, rate_limit.period)
         ELSE Quota("return", user.id, path, defaults.limit, defaults.period)
    ELSE Quota("return", IF client # None THEN client ELSE "unknown", path,
               defaults.limit, defaults.period)

\* the counter keyed by the raw request path
resolve_quota_raw_key(user, client, raw, fault, defaults) ==
    LET path == sanitize_path(raw) IN
    IF user # NoUser
    THEN LET tier == TierById(user.tier_id)
             rate_limit == RateLimitByTierPath(tier.id, path) IN
         IF fault = 1 \/ (fault = 2 /\ tier # NoTier)
         THEN Quota("error", user.id, raw, 0, 0)
         ELSE IF tier # NoTier /\ rate_limit # NoRateLimit
         THEN Quota("return", user.id, raw, rate_limit.limit, rate_limit.period)
         ELSE Quota("return", user.id, raw, defaults.limit, defaults.period)
    ELSE Quota("return", IF client # None THEN client ELSE "unknown", raw,
               defaults.limit, defaults.period)

\* the rule looked up by path alone, the tier filter left out
resolve_quota_any_tier(user, client, raw, fault, defaults) ==
    LET path == sanitize_path(raw) IN
    IF user # NoUser
    THEN LET tier == TierById(user.tier_id)
             rate_limit == GetOne({r \in RateLimits : r.path = path},
                                  NoRateLimit) IN
         IF fault = 1 \/ (fault = 2 /\ tier # NoTier)
         THEN Quota("error", user.id, path, 0, 0)
         ELSE IF tier # NoTier /\ rate_limit # NoRateLimit
         THEN Quota("return", user.id, path, rate_limit.limit, rate_limit.period)
         ELSE Quota("return", user.id, path, defaults.limit, defaults.period)
    ELSE Quota("return", IF client # None THEN client ELSE "unknown", path,
               defaults.limit, defaults.period)

\* the anonymous identity taken as "unknown" whatever the client
resolve_quota_no_client(user, client, raw, fault, defaults) ==
    LET path == sanitize_path(raw) IN
    IF user # NoUser
    THEN LET tier == TierById(user.tier_id)
             rate_limit == RateLimitByTierPath(tier.id, path) IN
         IF fault = 1 \/ (fault = 2 /\ tier # NoTier)
         THEN Quota("error", user.id, path, 0, 0)
         ELSE IF tier # NoTier /\ rate_limit # NoRateLimit
         THEN Quota("return", user.id, path, rate_limit.limit, rate_limit.period)
         ELSE Quota("return", user.id, path, defaults.limit, defaults.period)
    ELSE Quota("return", "unknown", path, defaults.limit, defaults.period)

\* the lookups wrapped in a handler that falls back to the default quota
resolve_quota_swallow(user, client, raw, fault, defaults) ==
    LET path == sanitize_path(raw) IN
    IF user # NoUser
    THEN LET tier == TierById(user.tier_id)
             rate_limit == RateLimitByTierPath(tier.id, path) IN
         IF fault = 0 /\ tier # NoTier /\ rate_limit # NoRateLimit
         THEN Quota("return", user.id, path, rate_limit.limit, rate_limit.period)
         ELSE Quota("return", user.id, path, defaults.limit, defaults.period)
    ELSE Quota("return", IF client # None THEN client ELSE "unknown", path,
               defaults.limit, defaults.period)

resolve_quota(user, client, raw, fault, defaults) ==
    LET path == sanitize_path(raw) IN
    IF user # NoUser
    THEN LET user_id == user.id IN
         IF fault = 1 THEN Quota("error", user_id, path, 0, 0)
         ELSE LET tier == TierById(user.tier_id) IN
           IF tier # NoTier
           THEN IF fault = 2 THEN Quota("error", user_id, path, 0, 0)
                ELSE LET rate_limit == RateLimitByTierPath(tier.id, path) IN
                  IF rate_limit # NoRateLimit
                  THEN Quota("return", user_id, path,
                             rate_limit.limit, rate_limit.period)
                  ELSE Quota("return", user_id, path,
                             defaults.limit, defaults.period)
           ELSE Quota("return", user_id, path, defaults.limit, defaults.period)
    ELSE Quota("return", IF client # None THEN client ELSE "unknown", path,
               defaults.limit, defaults.period)

(***************************************************************************)
(* The call rate_limiter.is_rate_limited(user_id, path, limit, period) and *)
(* what the gate makes of its result: True raises RateLimitException,      *)
(* False lets the request through, an exception propagates.                *)
(***************************************************************************)
\* a slip in the keyword arguments: limit and period exchanged
is_rate_limited_args_swapped(user_id, path, limit, period) ==
    [user_id |-> user_id, path |-> path, limit |-> period, period |-> limit]

\* the counter keyed by the path alone, one bucket for all callers
is_rate_limited_args_one_bucket(user_id, path, limit, period) ==
    [user_id |-> "203.0.113.5", path |-> path, limit |-> limit,
     period |-> period]

is_rate_limited_args(user_id, path, limit, period) ==
    [user_id |-> user_id, path |-> path, limit |-> limit, period |-> period]

\* the test of is_limited negated
gate_result_inverted(is_limited) ==
    CASE is_limited = "True" -> "Admitted"
      [] is_limited = "False" -> "Rejected"
      [] OTHER -> "StoreError"

\* the raise of RateLimitException left out
gate_result_never_raises(is_limited) ==
    CASE is_limited = "True" -> "Admitted"
      [] is_limited = "False" -> "Admitted"
      [] OTHER -> "StoreError"

\* the call wrapped in a handler that lets the request through
gate_result_fail_open(is_limited) ==
    CASE is_limited = "True" -> "Rejected"
      [] is_limited = "False" -> "Admitted"
      [] OTHER -> "Admitted"

gate_result(is_limited) ==
    CASE is_limited = "True" -> "Rejected"
      [] is_limited = "False" -> "Admitted"
      [] OTHER -> "StoreError"

(***************************************************************************)
(* Health checks (core/health.py) and the /ready endpoint.  A check ends   *)
(* by returning a boolean or by raising.  fault is the step of the         *)
(* database probe that raises (1: engine.begin(), 2: conn.execute, 3: the  *)
(* commit on leaving the block), respectively whether ping raises (1); 0:  *)
(* none.  client is cache.client, None while the store client is not       *)
(* initialized.                                                            *)
(***************************************************************************)
Returned(v) == [kind |-> "return", value |-> v]
Raised == [kind |-> "raise", value |-> FALSE]

RedisClients == {"redis", None}

\* async with engine.begin() as conn: await conn.execute(text("SELECT 1"))
database_probe(fault) ==
    IF fault \in 1..3 THEN Raised ELSE Returned(TRUE)

check_database_health(fault) ==
    LET probe == database_probe(fault) IN
    IF probe.kind = "raise" THEN Returned(FALSE) ELSE probe

\* the body of the try block of check_redis_health
redis_probe(client, fault) ==
    IF client = None THEN Returned(FALSE)
    ELSE IF fault = 1 THEN Raised
    ELSE Returned(TRUE)

\* the probe without its exception handler
check_redis_health_unguarded(client, fault) == redis_probe(client, fault)

check_redis_health(client, fault) ==
    LET probe == redis_probe(client, fault) IN
    IF probe.kind = "raise" THEN Returned(FALSE) ELSE probe

STATUS_HEALTHY == "healthy"
STATUS_UNHEALTHY == "unhealthy"
HTTP_200_OK == 200
HTTP_503_SERVICE_UNAVAILABLE == 503

NoResponse ==
    [kind |-> None, status_code |-> 0, status |-> None, app |-> None,
     database |-> None, redis |-> None]

\* the overall status taken from either check alone
ready_either(dbFault, client, pingFault) ==
    LET database_status == check_database_health(dbFault)
        redis_status == check_redis_health(client, pingFault)
    IN
    IF database_status.kind = "raise" \/ redis_status.kind = "raise"
    THEN [NoResponse EXCEPT !.kind = "raise"]
    ELSE
      LET overall_status == IF database_status.value \/ redis_status.value
                            THEN STATUS_HEALTHY ELSE STATUS_UNHEALTHY
          http_status == IF overall_status = STATUS_HEALTHY
                         THEN HTTP_200_OK ELSE HTTP_503_SERVICE_UNAVAILABLE
      IN [kind |-> "return", status_code |-> http_status,
          status |-> overall_status, app |-> STATUS_HEALTHY,
          database |-> IF database_status.value
                       THEN STATUS_HEALTHY ELSE STATUS_UNHEALTHY,
          redis |-> IF redis_status.value
                    THEN STATUS_HEALTHY ELSE STATUS_UNHEALTHY]

\* GET /ready: an exception of a check would leave the endpoint
ready(dbFault, client, pingFault) ==
    LET database_status == check_database_health(dbFault)
        redis_status == check_redis_health(client, pingFault)
    IN
    IF database_status.kind = "raise" \/ redis_status.kind = "raise"
    THEN [NoResponse EXCEPT !.kind = "raise"]
    ELSE
      LET overall_status == IF database_status.value /\ redis_status.value
                            THEN STATUS_HEALTHY ELSE STATUS_UNHEALTHY
          http_status == IF overall_status = STATUS_HEALTHY
                         THEN HTTP_200_OK ELSE HTTP_503_SERVICE_UNAVAILABLE
      IN [kind |-> "return", status_code |-> http_status,
          status |-> overall_status, app |-> STATUS_HEALTHY,
          database |-> IF database_status.value
                       THEN STATUS_HEALTHY ELSE STATUS_UNHEALTHY,
          redis |-> IF redis_status.value
                    THEN STATUS_HEALTHY ELSE STATUS_UNHEALTHY]

(***************************************************************************)
(* The counter store.  An entry with count 0 is an absent key; ttl is the  *)
(* remaining time to live, -1 for a key without expiry.  The other fields  *)
(* are history: age, the time the key existed before its expiry was set,   *)
(* and life, the time from its creation to its expiry (both counted up to  *)
(* the period), the quota resolved by the creating request, and the        *)
(* admissions, rejections and abandoned invocations of the window.         *)
(***************************************************************************)
Identities == {"u1", "203.0.113.5"}
Paths == {sanitize_path(raw) : raw \in GateRaws}
Keys == Identities \X Paths

NoEntry ==
    [count |-> 0, ttl |-> -1, age |-> 0, life |-> 0, limit |-> 0, period |-> 0,
     adm |-> 0, rej |-> 0, other |-> 0]

KeyOf(args) == <<args.user_id, args.path>>

\* INCR key: atomic increment, creating the key at 1
Incr(st, args) ==
    LET k == KeyOf(args) e == st[k] IN
    [st EXCEPT ![k] =
        IF e.count = 0
        THEN [e EXCEPT !.count = 1]
        ELSE [e EXCEPT !.count = e.count + 1]]

\* EXPIRE key period
Expire(st, args) ==
    LET k == KeyOf(args) IN
    IF st[k].count = 0 THEN st
    ELSE [st EXCEPT ![k].ttl = args.period, ![k].age = 0,
                    ![k].life = IF st[k].age + args.period < st[k].period
                                THEN st[k].age + args.period ELSE st[k].period]

\* one time unit passes: keys whose time to live runs out are deleted
Elapse(st) ==
    [k \in Keys |->
        LET e == st[k] IN
        IF e.count = 0 THEN e
        ELSE IF e.ttl = 1 THEN NoEntry
        ELSE [e EXCEPT !.ttl = IF e.ttl > 1 THEN e.ttl - 1 ELSE e.ttl,
                       !.age = IF e.ttl = -1 /\ e.age < e.period
                               THEN e.age + 1 ELSE e.age]]

\* history: the quota resolved by the request that created key k
Created(new, old, k, q) ==
    IF old[k].count = 0
    THEN [new EXCEPT ![k].limit = q.limit, ![k].period = q.period] ELSE new

\* history: the injected lookup fault is raised, as the lookup is made
FaultHit(user, fault) ==
    /\ user # NoUser
    /\ \/ fault = 1
       \/ fault = 2 /\ \E t \in Tiers : t.id = user.tier_id

Tally(st, k, outcome) ==
    [st EXCEPT ![k] =
        CASE outcome = "Admitted" -> [@ EXCEPT !.adm = @ + 1]
          [] outcome = "Rejected" -> [@ EXCEPT !.rej = @ + 1]
          [] OTHER -> [@ EXCEPT !.other = 1]]

(***************************************************************************)
(* State.                                                                  *)
(***************************************************************************)
VARIABLES
    pc,         \* pc[p]: where invocation p of rate_limiter_dependency stands
    rq,         \* rq[p]: the locals of invocation p
    store,      \* the counter store
    initEvent,  \* app.state.initialization_complete: absent, clear or set
    budget,     \* requests still to arrive
    defaults,   \* (DEFAULT_LIMIT, DEFAULT_PERIOD)
    call        \* the last call of an identity dependency, with its result

vars == <<pc, rq, store, initEvent, budget, defaults, call>>

NoRequest ==
    [user |-> NoUser, caught |-> None, client |-> None, raw |-> <<>>,
     user_id |-> None, path |-> <<>>, limit |-> 0, period |-> 0,
     cnt |-> 0, fresh |-> FALSE, stale |-> FALSE, error |-> None,
     outcome |-> None]

NoQuota == Quota(None, None, <<>>, 0, 0)

NoCall ==
    [fn |-> None, header |-> <<>>, token |-> None, api_key |-> None,
     faultT |-> 0, faultK |-> 0, client |-> None, raw |-> <<>>,
     returned |-> FALSE, result |-> Return(NoUser), quota |-> NoQuota,
     args |-> is_rate_limited_args(None, <<>>, 0, 0),
     check |-> Returned(FALSE), response |-> NoResponse,
     ops |-> <<>>, twice |-> FALSE, again |-> Return(NoUser)]

GateInit ==
    /\ pc = [p \in Procs |-> "idle"]
    /\ rq = [p \in Procs |-> NoRequest]
    /\ store = [k \in Keys |-> NoEntry]
    /\ call = NoCall

Init ==
    /\ GateInit
    /\ initEvent = "clear"
    /\ budget = MaxRequests
    /\ defaults = [limit |-> DEFAULT_LIMIT, period |-> DEFAULT_PERIOD]

(***************************************************************************)
(* A request arrives: its get_optional_user dependency runs first.         *)
(***************************************************************************)
\* the counter of the client address incremented as the request arrives,
\* before the wait and the resolution
ArriveWith_counting(p, header, client, raw, fault) ==
    /\ pc[p] = "idle"
    /\ budget > 0
    /\ budget' = budget - 1
    /\ LET run == get_optional_user_run(header, fault) IN
       rq' = [rq EXCEPT ![p] = [NoRequest EXCEPT !.user = run.result.value,
                                                 !.caught = run.caught,
                                                 !.client = client,
                                                 !.raw = raw]]
    /\ pc' = [pc EXCEPT ![p] = "wait"]
    /\ store' = Incr(store, is_rate_limited_args(client, sanitize_path(raw),
                                                 0, 0))
    /\ UNCHANGED <<initEvent, defaults, call>>

ArriveWith(p, header, client, raw, fault) ==
    /\ pc[p] = "idle"
    /\ budget > 0
    /\ budget' = budget - 1
    /\ LET run == get_optional_user_run(header, fault) IN
       rq' = [rq EXCEPT ![p] = [NoRequest EXCEPT !.user = run.result.value,
                                                 !.caught = run.caught,
                                                 !.client = client,
                                                 !.raw = raw]]
    /\ pc' = [pc EXCEPT ![p] = "wait"]
    /\ UNCHANGED <<store, initEvent, defaults, call>>

\* the requests of the concurrent model: anonymous, or with alice's token
GateHeaders == { <<>>, <<"Bearer", " ", "tok_alice">> }
GateClients == {"203.0.113.5"}

Arrive(p) ==
    \E header \in GateHeaders, client \in GateClients, raw \in GateRaws,
       fault \in 0..3 :
        ArriveWith(p, header, client, raw, fault)

\* application startup sets initialization_complete
CompleteInit ==
    /\ initEvent = "clear"
    /\ initEvent' = "set"
    /\ UNCHANGED <<pc, rq, store, budget, defaults, call>>

\* a wait that returns while the event is clear and blocks once it is set
initialization_wait_inverted(ev) == ev \in {"absent", "clear"}

\* the gate waits on initialization_complete only when the application has
\* one; Event.wait() returns once the event is set
initialization_wait_over(ev) == ev \in {"absent", "set"}

Args(p) ==
    is_rate_limited_args(rq[p].user_id, rq[p].path, rq[p].limit, rq[p].period)

(***************************************************************************)
(* The body up to the first store operation of is_rate_limited: the wait   *)
(* on initialization_complete, the tier and rule lookups (fault: the one   *)
(* that raises), and the atomic increment, which raises when the store is  *)
(* unreachable (up = FALSE).  Only the increment touches shared state.     *)
(***************************************************************************)
Enter(p) ==
    /\ pc[p] = "wait"
    /\ initialization_wait_over(initEvent)
    /\ \E fault \in 0..2, up \in BOOLEAN :
         LET q == resolve_quota(rq[p].user, rq[p].client, rq[p].raw, fault,
                                defaults)
             args == is_rate_limited_args(q.user_id, q.path, q.limit, q.period)
             k == KeyOf(args)
             r == [rq[p] EXCEPT !.user = NoUser, !.client = None, !.raw = <<>>,
                                !.user_id = q.user_id, !.path = q.path,
                                !.limit = q.limit, !.period = q.period]
             e == IF FaultHit(rq[p].user, fault) THEN "db" ELSE None
         IN
         IF q.kind = "error"
         THEN /\ rq' = [rq EXCEPT ![p] =
                          [r EXCEPT !.error = e, !.outcome = "DbError"]]
              /\ pc' = [pc EXCEPT ![p] = "done"]
              /\ store' = store
         ELSE IF ~up /\ e = None
         THEN /\ rq' = [rq EXCEPT ![p] =
                          [r EXCEPT !.error = "store",
                                    !.outcome = gate_result("raise")]]
              /\ pc' = [pc EXCEPT ![p] = "done"]
              /\ store' = store
         ELSE /\ store' = Created(Incr(store, args), store, k, q)
              /\ rq' = [rq EXCEPT ![p] =
                          [r EXCEPT !.error = e, !.cnt = store'[k].count,
                                    !.fresh = (store[k].count = 0)]]
              /\ pc' = [pc EXCEPT ![p] = "counted"]
    /\ UNCHANGED <<initEvent, budget, defaults, call>>

(***************************************************************************)
(* is_rate_limited, rest: the expiry is set when the increment returned 1, *)
(* the count is compared with the limit, and the gate raises or returns.   *)
(***************************************************************************)
is_limited(cnt, limit) == IF cnt > limit THEN "True" ELSE "False"

\* the expiry set by every request, not only by the first of the window
Finish_expire_always(p) ==
    /\ pc[p] = "counted"
    /\ LET k == KeyOf(Args(p))
           st == Expire(store, Args(p))
           outcome == gate_result(is_limited(rq[p].cnt, Args(p).limit)) IN
       /\ store' = IF rq[p].stale THEN st ELSE Tally(st, k, outcome)
       /\ rq' = [rq EXCEPT ![p].outcome = outcome]
    /\ pc' = [pc EXCEPT ![p] = "done"]
    /\ UNCHANGED <<initEvent, budget, defaults, call>>

Finish(p) ==
    /\ pc[p] = "counted"
    /\ LET k == KeyOf(Args(p))
           st == IF rq[p].cnt = 1 THEN Expire(store, Args(p)) ELSE store
           outcome == gate_result(is_limited(rq[p].cnt, Args(p).limit)) IN
       /\ store' = IF rq[p].stale THEN st ELSE Tally(st, k, outcome)
       /\ rq' = [rq EXCEPT ![p].outcome = outcome]
    /\ pc' = [pc EXCEPT ![p] = "done"]
    /\ UNCHANGED <<initEvent, budget, defaults, call>>

ExpireFails(p) ==
    /\ pc[p] = "counted"
    /\ rq[p].cnt = 1
    /\ LET k == KeyOf(Args(p)) outcome == gate_result("raise") IN
       /\ store' = IF rq[p].stale THEN store ELSE Tally(store, k, outcome)
       /\ rq' = [rq EXCEPT ![p].error = "store", ![p].outcome = outcome]
    /\ pc' = [pc EXCEPT ![p] = "done"]
    /\ UNCHANGED <<initEvent, budget, defaults, call>>

(***************************************************************************)
(* The request is cancelled while the gate is suspended at an await: the   *)
(* invocation is gone, and the handler never runs.                         *)
(***************************************************************************)
\* a compensating decrement when the request is cancelled after its increment
Abort_rollback(p) ==
    /\ pc[p] \in {"wait", "counted"}
    /\ store' = IF pc[p] = "counted" /\ ~rq[p].stale
                THEN [Tally(store, KeyOf(Args(p)), "Aborted")
                         EXCEPT ![KeyOf(Args(p))].count = @ - 1]
                ELSE store
    /\ rq' = [rq EXCEPT ![p] = NoRequest]
    /\ pc' = [pc EXCEPT ![p] = "idle"]
    /\ UNCHANGED <<initEvent, budget, defaults, call>>

Abort(p) ==
    /\ pc[p] \in {"wait", "counted"}
    /\ store' = IF pc[p] = "counted" /\ ~rq[p].stale
                THEN Tally(store, KeyOf(Args(p)), "Aborted") ELSE store
    /\ rq' = [rq EXCEPT ![p] = NoRequest]
    /\ pc' = [pc EXCEPT ![p] = "idle"]
    /\ UNCHANGED <<initEvent, budget, defaults, call>>

\* the invocation is over; the worker takes the next request
Complete(p) ==
    /\ pc[p] = "done"
    /\ pc' = [pc EXCEPT ![p] = "idle"]
    /\ rq' = [rq EXCEPT ![p] = NoRequest]
    /\ UNCHANGED <<store, initEvent, budget, defaults, call>>

(***************************************************************************)
(* Time passes in the counter store.                                       *)
(***************************************************************************)
Tick ==
    /\ store' = Elapse(store)
    /\ rq' = [p \in Procs |->
                IF /\ pc[p] \in {"counted", "done"} /\ rq[p].cnt > 0
                   /\ store[KeyOf(Args(p))].count > 0
                   /\ store'[KeyOf(Args(p))].count = 0
                THEN [rq[p] EXCEPT !.stale = TRUE] ELSE rq[p]]
    /\ UNCHANGED <<pc, initEvent, budget, defaults, call>>

Next ==
    \/ \E p \in Procs : Arrive(p)
    \/ CompleteInit
    \/ \E p \in Procs : Enter(p)
    \/ \E p \in Procs : Finish(p)
    \/ \E p \in Procs : ExpireFails(p)
    \/ \E p \in Procs : Abort(p)
    \/ \E p \in Procs : Complete(p)
    \/ Tick

Spec == Init /\ [][Next]_vars

(***************************************************************************)
(* Fair scheduling: startup runs to the point where it sets the event, the *)
(* event loop resumes every coroutine that is ready, and every awaited     *)
(* lookup or store operation completes, by returning or by raising.        *)
(* Requests need not arrive, time need not pass, and no request need be    *)
(* cancelled.                                                              *)
(***************************************************************************)
Fairness ==
    /\ WF_vars(CompleteInit)
    /\ \A p \in Procs : /\ WF_vars(Enter(p))
                        /\ WF_vars(Finish(p) \/ ExpireFails(p))
                        /\ WF_vars(Complete(p))

FairInit ==
    /\ GateInit
    /\ initEvent = "clear"
    /\ budget = LiveRequests
    /\ defaults = [limit |-> DEFAULT_LIMIT, period |-> DEFAULT_PERIOD]

FairSpec == FairInit /\ [][Next]_vars /\ Fairness

(***************************************************************************)
(* The end-to-end scenario: one anonymous caller from 203.0.113.5 calls    *)
(* /items/42 again and again under the default quota of 10 per 60; the     *)
(* application has no initialization_complete event.                       *)
(***************************************************************************)
ScenarioInit ==
    /\ GateInit
    /\ initEvent = "absent"
    /\ budget = ScenarioCalls
    /\ defaults = [limit |-> ScenarioLimit, period |-> ScenarioPeriod]

ScenarioNext ==
    \/ ArriveWith(1, <<>>, "203.0.113.5", <<"items", "42">>, 0)
    \/ Enter(1)
    \/ Finish(1)
    \/ Complete(1)
    \/ Tick

ScenarioSpec == ScenarioInit /\ [][ScenarioNext]_vars

(***************************************************************************)
(* The identity dependencies, the gate's resolution and the health checks  *)
(* as functions of their inputs: each action calls one of them on inputs   *)
(* drawn from the sets above and records the call with its result.         *)
(***************************************************************************)
CallsOfCurrentUser(fn) ==
    { [NoCall EXCEPT !.fn = fn, !.token = token, !.faultT = fault] :
        token \in Tokens, fault \in 0..2 }
CallsOfApiKeyUser ==
    { [NoCall EXCEPT !.fn = "get_api_key_user", !.api_key = api_key,
                     !.faultK = fault] :
        api_key \in ApiKeys, fault \in 0..1 }
CallsOfAuthenticatedUser ==
    { [NoCall EXCEPT !.fn = "get_authenticated_user", !.token = c[1],
                     !.api_key = c[2], !.faultT = c[3], !.faultK = c[4]] :
        c \in (Tokens \cup {None}) \X ApiKeys \X (0..2) \X (0..1) }
CallsOfGate ==
    { [NoCall EXCEPT !.fn = "rate_limiter_dependency", !.header = c[1],
                     !.client = c[2], !.raw = c[3], !.faultT = c[4],
                     !.faultK = c[5]] :
        c \in Headers \X Clients \X RawPaths \X (0..3) \X (0..2) }

\* the calls of a health check or of /ready: the database fault, the store
\* client and the ping fault
CallsOfHealth(fn) ==
    { [NoCall EXCEPT !.fn = fn, !.faultT = c[1], !.client = c[2],
                     !.faultK = c[3]] :
        c \in (0..3) \X RedisClients \X (0..1) }

ResolverInit ==
    /\ pc = [p \in Procs |-> "idle"]
    /\ rq = [p \in Procs |-> NoRequest]
    /\ store = [k \in Keys |-> NoEntry]
    /\ call \in CallsOfCurrentUser("get_current_user")
              \cup CallsOfCurrentUser("get_current_superuser")
              \cup CallsOfApiKeyUser \cup CallsOfAuthenticatedUser
              \cup CallsOfGate
              \cup CallsOfHealth("check_database_health")
              \cup CallsOfHealth("check_redis_health")
              \cup CallsOfHealth("ready")
    /\ initEvent = "absent"
    /\ budget = 0
    /\ defaults = [limit |-> DEFAULT_LIMIT, period |-> DEFAULT_PERIOD]

Returns(result, quota, ops) ==
    /\ ~call.returned
    /\ call' = [call EXCEPT !.returned = TRUE, !.result = result,
                            !.quota = quota, !.ops = ops,
                            !.args = is_rate_limited_args(
                                         quota.user_id, quota.path,
                                         quota.limit, quota.period)]
    /\ UNCHANGED <<pc, rq, store, initEvent, budget, defaults>>

CallCurrentUser ==
    /\ call.fn = "get_current_user"
    /\ Returns(get_current_user(call.token, call.faultT), NoQuota,
               get_current_user_calls(call.token, call.faultT))

CallCurrentSuperuser ==
    /\ call.fn = "get_current_superuser"
    /\ Returns(get_current_superuser(get_current_user(call.token, call.faultT)),
               NoQuota, get_current_user_calls(call.token, call.faultT))

CallApiKeyUser ==
    /\ call.fn = "get_api_key_user"
    /\ Returns(get_api_key_user(call.api_key, call.faultK), NoQuota,
               get_api_key_user_calls(call.api_key, call.faultK))

CallAuthenticatedUser ==
    /\ call.fn = "get_authenticated_user"
    /\ Returns(get_authenticated_user(call.token, call.api_key,
                                      call.faultT, call.faultK), NoQuota,
               get_authenticated_user_calls(call.token, call.api_key,
                                            call.faultT, call.faultK))

\* the gate's dependencies and body up to the call of is_rate_limited
CallGate ==
    /\ call.fn = "rate_limiter_dependency"
    /\ LET r == get_optional_user(call.header, call.faultT) IN
       Returns(r, resolve_quota(r.value, call.client, call.raw, call.faultK,
                                defaults),
               get_optional_user_calls(call.header, call.faultT))

\* the same credentials resolved a second time, after the first call
IdentityCalls ==
    {"get_current_user", "get_api_key_user", "get_authenticated_user",
     "rate_limiter_dependency"}

CallAgain ==
    /\ call.returned /\ ~call.twice /\ call.fn \in IdentityCalls
    /\ call' = [call EXCEPT
          !.twice = TRUE,
          !.again =
            CASE call.fn = "get_current_user" ->
                   get_current_user(call.token, call.faultT)
              [] call.fn = "get_api_key_user" ->
                   get_api_key_user(call.api_key, call.faultK)
              [] call.fn = "get_authenticated_user" ->
                   get_authenticated_user(call.token, call.api_key,
                                          call.faultT, call.faultK)
              [] OTHER -> get_optional_user(call.header, call.faultT)]
    /\ UNCHANGED <<pc, rq, store, initEvent, budget, defaults>>

CallCheckDatabase ==
    /\ call.fn = "check_database_health" /\ ~call.returned
    /\ call' = [call EXCEPT !.returned = TRUE,
                            !.check = check_database_health(call.faultT)]
    /\ UNCHANGED <<pc, rq, store, initEvent, budget, defaults>>

CallCheckRedis ==
    /\ call.fn = "check_redis_health" /\ ~call.returned
    /\ call' = [call EXCEPT !.returned = TRUE,
                            !.check = check_redis_health(call.client,
                                                         call.faultK)]
    /\ UNCHANGED <<pc, rq, store, initEvent, budget, defaults>>

CallReady ==
    /\ call.fn = "ready" /\ ~call.returned
    /\ call' = [call EXCEPT !.returned = TRUE,
                            !.response = ready(call.faultT, call.client,
                                               call.faultK)]
    /\ UNCHANGED <<pc, rq, store, initEvent, budget, defaults>>

ResolverNext ==
    \/ CallCurrentUser
    \/ CallCurrentSuperuser
    \/ CallApiKeyUser
    \/ CallAuthenticatedUser
    \/ CallGate
    \/ CallAgain
    \/ CallCheckDatabase
    \/ CallCheckRedis
    \/ CallReady

ResolverSpec == ResolverInit /\ [][ResolverNext]_vars

(***************************************************************************)
(* Properties.                                                             *)
(***************************************************************************)
Min(a, b) == IF a < b THEN a ELSE b

\* the invocations that incremented key k in its current window and have
\* not returned yet
InFlight(k) ==
    {p \in Procs : pc[p] = "counted" /\ KeyOf(Args(p)) = k /\ ~rq[p].stale}

Decided(p) == pc[p] = "done" /\ rq[p].outcome \in {"Admitted", "Rejected"}

(***************************************************************************)
(* C1: when the N invocations that incremented a key within one window     *)
(* have all returned, under every interleaving exactly min(N, L) of them   *)
(* were admitted and the other N - L rejected, and the stored count is N:  *)
(* no increment is lost and none is counted twice.                         *)
(***************************************************************************)
ThmC1_ExactAdmission ==
    \A k \in Keys :
        LET e == store[k] n == e.adm + e.rej IN
        (e.count > 0 /\ InFlight(k) = {} /\ e.other = 0) =>
            /\ e.count = n
            /\ e.adm = Min(n, e.limit)
            /\ e.rej = n - Min(n, e.limit)

WitC1_OverLimit ==
    \E k \in Keys :
        /\ store[k].count > store[k].limit /\ store[k].limit > 0
        /\ InFlight(k) = {} /\ store[k].other = 0
        /\ \A p \in Procs : Decided(p) /\ KeyOf(Args(p)) = k /\ ~rq[p].stale
        /\ \E p, q \in Procs :
              rq[p].outcome = "Admitted" /\ rq[q].outcome = "Rejected"

(***************************************************************************)
(* C2: a gate call is admitted exactly when its post-increment count is at *)
(* most the limit and rejected exactly when it is above; under the quota   *)
(* of 10 per 60 the first 10 calls of a window are admitted, the 11th is   *)
(* rejected, and a call that finds the window expired is admitted.         *)
(***************************************************************************)
ThmC2_AdmitIffWithinLimit ==
    \A p \in Procs :
        Decided(p) =>
            LET r == rq[p] e == store[KeyOf(Args(p))] IN
            /\ r.limit = ScenarioLimit /\ r.period = ScenarioPeriod
            /\ r.outcome = "Admitted" <=> r.cnt <= r.limit
            /\ r.outcome = "Rejected" <=> r.cnt > r.limit
            /\ ~r.stale => /\ e.adm + e.rej <= 10 => r.outcome = "Admitted"
                           /\ e.adm + e.rej = 11 => r.outcome = "Rejected"
            /\ r.fresh => r.outcome = "Admitted"

WitC2_EleventhRejected ==
    \E p \in Procs :
        /\ Decided(p) /\ ~rq[p].stale /\ rq[p].outcome = "Rejected"
        /\ rq[p].cnt = 11
        /\ store[KeyOf(Args(p))].adm = 10 /\ store[KeyOf(Args(p))].rej = 1

(***************************************************************************)
(* C3: a counter entry lives at least the period resolved by the request   *)
(* that created it, and a call that finds the entry absent or expired      *)
(* starts a fresh window: it observes count 1 and is admitted.             *)
(***************************************************************************)
ThmC3_FixedWindow ==
    /\ \A k \in Keys :
          (store[k].count > 0 /\ store[k].ttl # -1) =>
              /\ store[k].life >= store[k].period
              /\ store[k].ttl <= store[k].period
    /\ \A p \in Procs :
          (pc[p] \in {"counted", "done"} /\ rq[p].fresh) =>
              /\ rq[p].cnt = 1
              /\ Decided(p) => rq[p].outcome = "Admitted"

WitC3_FreshAfterFullWindow ==
    \E p, q \in Procs :
        /\ p # q /\ KeyOf(Args(p)) = KeyOf(Args(q))
        /\ Decided(q) /\ rq[q].stale /\ rq[q].outcome = "Rejected"
        /\ Decided(p) /\ rq[p].fresh /\ rq[p].outcome = "Admitted"
        /\ store[KeyOf(Args(p))].ttl # -1

(***************************************************************************)
(* C9: an invocation whose store operation failed ends in the              *)
(* infrastructure error, neither admitted nor rejected.                    *)
(***************************************************************************)
ThmC9_StoreErrorDistinct ==
    \A p \in Procs :
        (pc[p] = "done" /\ rq[p].error = "store") =>
            /\ rq[p].outcome = "StoreError"
            /\ rq[p].outcome \notin {"Admitted", "Rejected"}

WitC9_StoreDown ==
    \E p \in Procs :
        pc[p] = "done" /\ rq[p].error = "store" /\ rq[p].outcome = "StoreError"

NamedBy(token) ==
    {u \in Users : /\ ~u.is_deleted
                   /\ TokenSubject(token) # None
                   /\ TokenSubject(token) \in {u.username, u.email}}
\* the users owning an API key
OwnersOf(api_key) ==
    {u \in Users : ~u.is_deleted /\ api_key \notin {None, ""}
                                 /\ u.api_key = api_key}
\* the rules of a user's tier for a normalized path
RulesFor(user, path) ==
    {r \in RateLimits : /\ \E t \in Tiers : t.id = user.tier_id
                        /\ r.tier_id = user.tier_id /\ r.path = path}
Anonymous(client) == IF client = None THEN "unknown" ELSE client

GateCalled == call.returned /\ call.fn = "rate_limiter_dependency"

(***************************************************************************)
(* C4: for an authenticated user whose tier has a rule for the normalized  *)
(* path, the (limit, period) passed to the rate gate is that rule's.       *)
(***************************************************************************)
ThmC4_RuleQuota ==
    (GateCalled /\ call.result.value # NoUser /\ call.quota.kind = "return") =>
        \A r \in RulesFor(call.result.value, sanitize_path(call.raw)) :
            call.args.limit = r.limit /\ call.args.period = r.period

WitC4_CarolItems ==
    /\ GateCalled /\ call.result.value.username = "carol"
    /\ call.raw = <<"items", "57">> /\ call.quota.kind = "return"
    /\ call.args.limit = 3 /\ call.args.period = 1
    /\ <<call.args.limit, call.args.period>>
          # <<defaults.limit, defaults.period>>

(***************************************************************************)
(* C5: for an authenticated user without a tier (tier_id absent or naming  *)
(* no tier), and for one whose tier has no rule for the normalized path,   *)
(* the quota passed to the rate gate is the system default.                *)
(***************************************************************************)
ThmC5_DefaultQuota ==
    (GateCalled /\ call.result.value # NoUser /\ call.quota.kind = "return"
       /\ RulesFor(call.result.value, sanitize_path(call.raw)) = {}) =>
        /\ call.args.limit = defaults.limit
        /\ call.args.period = defaults.period

WitC5_TierWithoutRule ==
    /\ GateCalled /\ call.result.value.username = "alice"
    /\ call.raw = <<"users">> /\ call.quota.kind = "return"
    /\ call.args.limit = defaults.limit /\ call.args.period = defaults.period

(***************************************************************************)
(* C6: an anonymous caller gets the default quota with no tier or rule     *)
(* lookup (a failing lookup cannot touch it), and the identity part of its *)
(* key is the client address, or "unknown" without client information.     *)
(***************************************************************************)
ThmC6_Anonymous ==
    (GateCalled /\ call.result.value = NoUser) =>
        /\ call.quota.kind = "return"
        /\ call.args.limit = defaults.limit
        /\ call.args.period = defaults.period
        /\ call.args.user_id = Anonymous(call.client)

WitC6_AnonymousClient ==
    /\ GateCalled /\ call.result.value = NoUser /\ call.faultK = 1
    /\ call.client = "203.0.113.5" /\ call.args.user_id = "203.0.113.5"

(***************************************************************************)
(* C7: with no infrastructure error, get_authenticated_user returns the    *)
(* user the token names when there is one, whatever the API key; else the  *)
(* owner of the API key when there is one; with neither credential it      *)
(* raises Unauthenticated, and the gate resolves to the anonymous caller.  *)
(***************************************************************************)
ThmC7_Precedence ==
    /\ (call.returned /\ call.fn = "get_authenticated_user"
          /\ call.faultT = 0 /\ call.faultK = 0) =>
          /\ \A u \in NamedBy(call.token) : call.result = Return(u)
          /\ NamedBy(call.token) = {} =>
                \A u \in OwnersOf(call.api_key) : call.result = Return(u)
          /\ (call.token \in {None, ""} /\ call.api_key \in {None, ""}) =>
                call.result = Unauthorized
    /\ (GateCalled /\ call.header = <<>>) =>
          /\ call.result = Return(NoUser)
          /\ call.args.user_id = Anonymous(call.client)

WitC7_TokenWins ==
    /\ call.returned /\ call.fn = "get_authenticated_user"
    /\ call.faultT = 0 /\ call.faultK = 0
    /\ call.token = "tok_alice" /\ call.api_key = "key_bob"
    /\ call.result.value.username = "alice"

(***************************************************************************)
(* C8: get_optional_user never raises, and for a header that carries no    *)
(* credential naming a live user it returns no user, so that the gate goes *)
(* on as anonymous; the auth-only dependencies raise Unauthenticated for a *)
(* token or an API key that resolves to no user.                           *)
(***************************************************************************)
\* the token a header carries under the bearer scheme, "" when none
BearerToken(header) ==
    IF Len(header) = 3 /\ header[1] \in {"Bearer", "BEARER", "bearer"}
                       /\ header[2] = " "
    THEN header[3] ELSE ""

ThmC8_OptionalNeverRaises ==
    /\ GateCalled =>
          /\ call.result.kind = "return"
          /\ NamedBy(BearerToken(call.header)) = {} =>
                /\ call.result.value = NoUser
                /\ call.quota.kind = "return"
                /\ call.args.user_id = Anonymous(call.client)
    /\ (call.returned /\ call.fn = "get_current_user" /\ call.faultT = 0
          /\ NamedBy(call.token) = {}) => call.result = Unauthorized
    /\ (call.returned /\ call.fn = "get_api_key_user" /\ call.faultK = 0
          /\ OwnersOf(call.api_key) = {}) => call.result = Unauthorized
    /\ (call.returned /\ call.fn = "get_authenticated_user"
          /\ call.faultT = 0 /\ call.faultK = 0
          /\ NamedBy(call.token) = {} /\ OwnersOf(call.api_key) = {}) =>
          call.result = Unauthorized

WitC8_DeletedUserToken ==
    /\ GateCalled /\ call.header = <<"Bearer", " ", "tok_dave">>
    /\ call.faultT = 0 /\ call.result = Return(NoUser)
    /\ call.args.user_id = Anonymous(call.client)

(***************************************************************************)
(* C11: the gate never deadlocks.  Under fair scheduling every invocation, *)
(* also one that arrived while initialization was in progress and waits on *)
(* initialization_complete, eventually ends (admitted, rejected or with an *)
(* error) unless it is cancelled; and no invocation blocks another: a      *)
(* waiting invocation can go on as soon as the event is set, and one that  *)
(* has incremented can finish, whatever the other invocations are doing.   *)
(***************************************************************************)
ThmC11_NoDeadlock ==
    /\ \A p \in Procs :
          (pc[p] \in {"wait", "counted"}) ~> (pc[p] \in {"done", "idle"})
    /\ [](\A p \in Procs :
            /\ (pc[p] = "wait" /\ initEvent # "clear") => ENABLED Enter(p)
            /\ pc[p] = "counted" => ENABLED Finish(p))

\* both handlers arrived before the event was set, waited, and have ended
WitC11_WaitedThenEnded ==
    /\ initEvent = "set" /\ budget = LiveRequests - 2
    /\ \A p \in Procs : Decided(p)

(***************************************************************************)
(* C12: get_current_superuser ends in Forbidden exactly when the token     *)
(* resolved to a user whose is_superuser is false; it returns the user     *)
(* unchanged when is_superuser is true; and a token that resolves to no    *)
(* user ends in Unauthenticated, never in Forbidden.                       *)
(***************************************************************************)
SuperuserCalled == call.returned /\ call.fn = "get_current_superuser"

ThmC12_SuperuserForbidden ==
    SuperuserCalled =>
        LET resolved == get_current_user(call.token, call.faultT) IN
        /\ call.result = Forbidden <=>
              (resolved.kind = "return" /\ ~resolved.value.is_superuser)
        /\ call.result = Forbidden =>
              \E u \in NamedBy(call.token) : ~u.is_superuser
        /\ call.faultT = 0 =>
              /\ \A u \in NamedBy(call.token) :
                    call.result = IF u.is_superuser THEN Return(u) ELSE Forbidden
              /\ NamedBy(call.token) = {} => call.result = Unauthorized

\* alice, who resolves and is no superuser, is refused
WitC12_NonSuperuser ==
    /\ SuperuserCalled /\ call.faultT = 0
    /\ call.token = "tok_alice" /\ call.result = Forbidden

ThmC14_Ready ==
    (call.returned /\ call.fn = "ready") =>
        LET r == call.response
            db == call.faultT = 0
            redis == call.client # None /\ call.faultK = 0
        IN
        /\ r.kind = "return"
        /\ (db /\ redis) <=> (r.status = "healthy" /\ r.status_code = 200)
        /\ ~(db /\ redis) <=> (r.status = "unhealthy" /\ r.status_code = 503)
        /\ r.database = IF db THEN "healthy" ELSE "unhealthy"
        /\ r.redis = IF redis THEN "healthy" ELSE "unhealthy"
        /\ r.app = "healthy"

\* the database answers and the store client is not initialized
WitC14_RedisDown ==
    /\ call.returned /\ call.fn = "ready"
    /\ call.faultT = 0 /\ call.client = None
    /\ call.response.status_code = 503
    /\ call.response.database = "healthy"
    /\ call.response.redis = "unhealthy"

(***************************************************************************)
(* C15, as stated: the path of the counter key is a function of the        *)
(* request path alone; any two concrete paths that match a common route    *)
(* have the same canonical path; and two paths of different routes never   *)
(* have the same canonical path.                                           *)
(***************************************************************************)
GateKeyed == GateCalled /\ call.quota.kind = "return"

OrigC15_Normalization ==
    GateKeyed =>
        /\ call.args.path = sanitize_path(call.raw)
        /\ \A raw \in RawPaths :
              /\ RoutesOf(raw) \cap RoutesOf(call.raw) # {} =>
                    sanitize_path(raw) = call.args.path
              /\ RoutesOf(raw) \cap RoutesOf(call.raw) = {} =>
                    sanitize_path(raw) # call.args.path

(***************************************************************************)
(* C15, for plain paths: the same holds of the paths none of whose         *)
(* parameters has a value that is a registered static segment, and the     *)
(* canonical path of such a path is the template of its route.  A          *)
(* parameter value that is a static segment is kept: the canonical path of *)
(* such a path is no route template, and it gets a bucket of its own.      *)
(***************************************************************************)
ThmC15_NormalizationOfPlainPaths ==
    GateKeyed =>
        /\ call.args.path = sanitize_path(call.raw)
        /\ PlainParameters(call.raw) =>
              /\ RoutesOf(call.raw) = {call.args.path}
              /\ \A raw \in RawPaths :
                    PlainParameters(raw) =>
                      /\ RoutesOf(raw) \cap RoutesOf(call.raw) # {} =>
                            sanitize_path(raw) = call.args.path
                      /\ RoutesOf(raw) \cap RoutesOf(call.raw) = {} =>
                            sanitize_path(raw) # call.args.path
        /\ ~PlainParameters(call.raw) => call.args.path \notin Routes

\* /items/57 is keyed by /items/{id}, as /items/42 is and /users/42 is not
WitC15_SharedBucket ==
    /\ GateKeyed /\ call.raw = <<"items", "57">>
    /\ call.args.path = <<"items", "{id}">>
    /\ sanitize_path(<<"items", "42">>) = call.args.path
    /\ sanitize_path(<<"users", "42">>) # call.args.path

(***************************************************************************)
(* C16, as stated: the expiry of an entry is set only by the request whose *)
(* increment returned 1, at most once per window, and is never reset or    *)
(* extended afterwards; and every entry that exists has an expiry, at the  *)
(* latest when the request that created it is no longer in flight.         *)
(***************************************************************************)
\* the invocations that created the current entry of key k and have not yet
\* passed their expiry step
Creating(k) ==
    {p \in Procs : pc[p] = "counted" /\ rq[p].cnt = 1 /\ KeyOf(Args(p)) = k}

ExpirySetByFirstOnly ==
    \A k \in Keys :
        /\ (store[k].ttl = -1 /\ store'[k].ttl # -1) =>
              \E p \in Creating(k) : pc'[p] = "done"
        /\ (store[k].ttl # -1 /\ store'[k].count > 0) =>
              /\ store'[k].ttl # -1
              /\ store'[k].ttl <= store[k].ttl

EveryEntryExpires ==
    \A k \in Keys :
        (store[k].count > 0 /\ Creating(k) = {}) => store[k].ttl # -1

OrigC16_ExpirySetOnce == [][ExpirySetByFirstOnly]_vars /\ []EveryEntryExpires

(***************************************************************************)
(* C16, what holds: the expiry is set only by the request whose increment  *)
(* returned 1, at most once per window, and never reset or extended; an    *)
(* entry has its expiry once that request has passed its expiry step.  The *)
(* increment and the expiry are two store operations: when the creating    *)
(* request is cancelled between them, or its expiry operation fails, the   *)
(* entry is left without expiry, and no later request sets one.            *)
(***************************************************************************)
ThmC16_ExpirySetByFirstOnly ==
    /\ [][ExpirySetByFirstOnly]_vars
    /\ [](\A k \in Keys :
            (store[k].count > 0 /\ Creating(k) = {} /\ store[k].other = 0) =>
                store[k].ttl # -1)
    /\ [][\A k \in Keys :
            (store[k].count > 0 /\ store[k].ttl = -1 /\ Creating(k) = {}) =>
                store'[k].ttl = -1]_vars

\* the second request of a window has returned and left the expiry that
\* the first one set
WitC16_SecondKeepsExpiry ==
    \E p, q \in Procs :
        /\ Decided(p) /\ Decided(q) /\ ~rq[p].stale /\ ~rq[q].stale
        /\ KeyOf(Args(p)) = KeyOf(Args(q))
        /\ rq[p].cnt = 1 /\ rq[q].cnt = 2
        /\ store[KeyOf(Args(p))].ttl = 1 /\ store[KeyOf(Args(p))].period = 2

(***************************************************************************)
(* C17: a committed increment is never rolled back.  No step lowers the    *)
(* count of a key except the expiry of its entry; a request cancelled      *)
(* after its increment leaves the count as it is; and every request        *)
(* observes the stored count plus one, cancelled requests included.        *)
(***************************************************************************)
ThmC17_NoRollback ==
    [][/\ \A k \in Keys :
            \/ store'[k].count >= store[k].count
            \/ store[k].ttl = 1 /\ store'[k] = NoEntry
       /\ \A p \in Procs :
            /\ (pc[p] = "counted" /\ pc'[p] = "idle") =>
                  store'[KeyOf(Args(p))].count = store[KeyOf(Args(p))].count
            /\ (pc[p] = "wait" /\ pc'[p] = "counted") =>
                  /\ rq'[p].cnt = store[<<rq'[p].user_id, rq'[p].path>>].count + 1
                  /\ store'[<<rq'[p].user_id, rq'[p].path>>].count = rq'[p].cnt
      ]_vars

\* under the limit of 2 the first request was admitted and set the expiry,
\* the second was cancelled after its increment (an entry with an expiry
\* has no failed store operation), and the third observed 3 and was rejected
WitC17_AbortedStillCounted ==
    \E p \in Procs :
        LET k == KeyOf(Args(p)) IN
        /\ Decided(p) /\ ~rq[p].stale /\ rq[p].cnt = 3 /\ rq[p].limit = 2
        /\ rq[p].outcome = "Rejected"
        /\ store[k].count = 3 /\ store[k].ttl # -1 /\ store[k].other = 1
        /\ store[k].adm = 1 /\ store[k].rej = 1

Increments(p) == pc[p] = "wait" /\ pc'[p] = "counted"

ThmC19_OneIncrement ==
    /\ [][/\ \A k \in Keys :
               store'[k].count > store[k].count =>
                 /\ store'[k].count = store[k].count + 1
                 /\ \A j \in Keys \ {k} : store'[j].count <= store[j].count
                 /\ \E p \in Procs :
                       /\ Increments(p)
                       /\ initialization_wait_over(initEvent)
                       /\ <<rq'[p].user_id, rq'[p].path>> = k
                       /\ rq'[p].limit > 0 /\ rq'[p].error = None
                       /\ rq'[p].cnt = store'[k].count
          /\ \A p \in Procs :
               (pc'[p] # pc[p] /\ ~Increments(p)) =>
                 \A k \in Keys : store'[k].count = store[k].count
         ]_vars
    /\ [](\A p \in Procs :
            /\ pc[p] \in {"idle", "wait"} => rq[p].cnt = 0
            /\ (pc[p] = "done" /\ rq[p].outcome = "DbError") => rq[p].cnt = 0
            /\ pc[p] = "counted" => rq[p].cnt >= 1
            /\ Decided(p) => rq[p].cnt >= 1
            /\ (Decided(p) /\ rq[p].outcome = "Rejected") =>
                  rq[p].cnt > rq[p].limit)

\* of three requests of alice to /items the first was admitted, one failed
\* in the rule lookup and one was rejected: the count is 2
WitC19_FailedLookupNotCounted ==
    \E p, q \in Procs :
        /\ Decided(p) /\ rq[p].outcome = "Rejected" /\ rq[p].cnt = 2
        /\ ~rq[p].stale
        /\ pc[q] = "done" /\ rq[q].outcome = "DbError" /\ rq[q].cnt = 0
        /\ rq[q].user_id = rq[p].user_id /\ rq[q].path = rq[p].path
        /\ budget = 0
        /\ store[KeyOf(Args(p))].count = 2 /\ store[KeyOf(Args(p))].other = 0

(***************************************************************************)
(* C20: counter buckets are isolated by key.  A step of an invocation      *)
(* resolved to (identity, normalized path) changes at most the entry of    *)
(* that key; the count of a key is the number of invocations on that key   *)
(* in its window, whatever was requested on other keys; and the outcome of *)
(* an invocation follows from the count it observed on its own key.        *)
(***************************************************************************)
ResolvedKey(r) == <<r.user_id, r.path>>

ThmC20_KeyIsolation ==
    /\ [][\A p \in Procs :
             pc'[p] # pc[p] =>
               LET k == IF Increments(p) THEN ResolvedKey(rq'[p])
                        ELSE ResolvedKey(rq[p]) IN
               \A j \in Keys \ {k} : store'[j] = store[j]]_vars
    /\ [](\A k \in Keys :
            (store[k].count > 0 /\ store[k].other = 0) =>
                store[k].count
                  = store[k].adm + store[k].rej + Cardinality(InFlight(k)))
    /\ [](\A p \in Procs :
            (Decided(p) /\ ~rq[p].stale) =>
                /\ rq[p].cnt <= store[ResolvedKey(rq[p])].count
                /\ rq[p].outcome = "Admitted" <=> rq[p].cnt <= rq[p].limit)

\* alice's second request to /items is rejected under her limit of 1 while
\* the anonymous caller's first request to /items is admitted
WitC20_TwoBuckets ==
    \E p, q \in Procs :
        /\ Decided(p) /\ ~rq[p].stale /\ rq[p].user_id = "u1"
        /\ rq[p].outcome = "Rejected" /\ rq[p].cnt = 2
        /\ Decided(q) /\ ~rq[q].stale /\ rq[q].user_id = "203.0.113.5"
        /\ rq[q].outcome = "Admitted" /\ rq[q].cnt = 1
        /\ rq[p].path = rq[q].path
        /\ store[ResolvedKey(rq[p])].count = 2
        /\ store[ResolvedKey(rq[q])].count = 1

=============================================================================
